---------------------------- MODULE Spec2Model ----------------------------
(***************************************************************************)
(* Model of enumerate.py (eltako14bus): the ESP2 frame codec, the Eltako   *)
(* message classes, exchange(), and the two phases of enumerate().         *)
(*                                                                         *)
(* A byte string is a sequence of naturals in 0..255.  A parse result is   *)
(* a record with ok = TRUE and the fields of the parsed object, or         *)
(* ok = FALSE and the message of the ParseError that parse() raises.       *)
(***************************************************************************)
EXTENDS Integers, Sequences, FiniteSets

VARIABLES
    pc,          \* where the enumerate() coroutine is suspended
    usage_map,   \* the list usage_map; entry a+1 is the state of address a
    reported,    \* the flag `reported` of Phase B
    request,     \* the EltakoMessage most recently handed to exchange()
    response,    \* the local `response`: the last reply exchange() returned
    i,           \* the loop variable i of the Phase B search
    outcome,     \* how the last exchange() ended: returned or raised
    error,       \* the exception that ended the run, "" while it runs
    out,         \* the lines printed by the last step
    discovered,  \* the devices announced by "Discovered at ..." lines
    ndev,        \* Discovery Replies the bus has given to Phase A probes
    nlearn,      \* Discovery Replies the bus has given to learn-mode probes
    xtype,       \* exchange(): the responsetype argument
    xdata,       \* exchange(): coap_response.payload
    xresult,     \* exchange(): what the call returned or raised
    cpc,         \* codec: how far a message has gone from constructor to parse
    cargs,       \* codec: the arguments given to the constructor
    cmsg,        \* codec: the constructed ESP2Message or EltakoMessage
    cwire,       \* codec: the bytes on the wire
    cflip,       \* codec: the bit inverted on the wire, pos = 0 if none
    cparsed      \* codec: what ESP2Message.parse made of the wire

vars == <<pc, usage_map, reported, request, response, i, outcome, error, out,
          discovered, ndev, nlearn, xtype, xdata, xresult,
          cpc, cargs, cmsg, cwire, cflip, cparsed>>

enumVars == <<pc, usage_map, reported, request, response, i, outcome, error,
              out, discovered, ndev, nlearn>>

exchangeVars == <<xtype, xdata, xresult>>

codecVars == <<cpc, cargs, cmsg, cwire, cflip, cparsed>>

---------------------------------------------------------------------------
(* Bytes and byte strings *)

RECURSIVE Sum(_)
Sum(s) == IF s = <<>> THEN 0 ELSE Head(s) + Sum(Tail(s))

Min2(a, b) == IF a < b THEN a ELSE b

\* Python's s[a:b] for 0 <= a, 0 <= b, on a sequence indexed from 0
Slice(s, a, b) ==
    LET lo == Min2(a, Len(s))
        hi == Min2(b, Len(s))
    IN  IF hi <= lo THEN <<>> ELSE SubSeq(s, lo + 1, hi)

\* Python's [x] * n
Repeat(x, n) == [k \in 1..n |-> x]

Zeros8 == Repeat(0, 8)

---------------------------------------------------------------------------
(* ESP2Message *)

Preamble == <<165, 90>>

FrameLen == 14

ParseError(msg) == [ok |-> FALSE, err |-> msg]

\* Mutant of ESP2Serialize: the checksum is the plain sum
ESP2SerializeNoMod(body) == Preamble \o body \o <<Sum(body)>>

ESP2Serialize(body) == Preamble \o body \o <<Sum(body) % 256>>

\* Mutant of ESP2Checked: the checksum is not looked at
ESP2Unchecked(data, body) == [ok |-> TRUE, body |-> body]

\* The checksum test and the result of ESP2Message.parse on 14 bytes
ESP2Checked(data, body) ==
    IF Sum(body) % 256 # data[14]
    THEN ParseError("Checksum mismatch")
    ELSE [ok |-> TRUE, body |-> body]

ESP2Parse(data) ==
    IF Slice(data, 0, 2) # Preamble THEN ParseError("No preamble found")
    ELSE IF Len(data) # FrameLen THEN ParseError("Invalid message length")
    ELSE ESP2Checked(data, Slice(data, 2, 13))

\* ESP2Message.__init__
ESP2MessageInit(body) == [cls |-> "ESP2Message", body |-> body]

---------------------------------------------------------------------------
(* EltakoMessage *)

TCT == 171    \* (5 << 5) + 11: a request
RMT == 139    \* (4 << 5) + 11: a response

EltakoBody(org, address, payload, is_request) ==
    <<IF is_request THEN TCT ELSE RMT, org>> \o payload \o <<address>>

\* EltakoMessage.__init__: the four arguments are stored as given
EltakoMessageInit(org, address, payload, is_request) ==
    [cls |-> "EltakoMessage", org |-> org, address |-> address,
     payload |-> payload, is_request |-> is_request]

\* msg.body: the attribute of an ESP2Message, the property of an
\* EltakoMessage
Body(msg) ==
    IF msg.cls = "EltakoMessage"
    THEN EltakoBody(msg.org, msg.address, msg.payload, msg.is_request)
    ELSE msg.body

\* msg.serialize(), which EltakoMessage inherits
Serialize(msg) == ESP2Serialize(Body(msg))

EltakoSerialize(org, address, payload, is_request) ==
    ESP2Serialize(EltakoBody(org, address, payload, is_request))

\* EltakoMessage.parse after super().parse(data) gave esp2message
EltakoDecode(esp2message) ==
    IF ~esp2message.ok THEN esp2message
    ELSE IF esp2message.body[1] \notin {TCT, RMT}
    THEN ParseError("Code is neither TCT nor RMT")
    ELSE [ok |-> TRUE,
          org |-> esp2message.body[2],
          address |-> esp2message.body[11],
          payload |-> Slice(esp2message.body, 2, 10),
          is_request |-> (esp2message.body[1] = TCT)]

EltakoParse(data) == EltakoDecode(ESP2Parse(data))

---------------------------------------------------------------------------
(* EltakoDiscoveryReply *)

DiscoveryOrg == 240    \* 0xf0

DiscoveryMarker == <<127, 8>>

DiscoveryPayload(reported_address, reported_size, model) ==
    <<reported_address, reported_size>> \o DiscoveryMarker \o model

DiscoveryReplyFrame(reported_address, reported_size, model) ==
    EltakoSerialize(DiscoveryOrg, 0,
                    DiscoveryPayload(reported_address, reported_size, model),
                    FALSE)

\* EltakoDiscoveryReply.parse after super().parse(data) gave eltakomessage
DiscoveryReplyDecode(eltakomessage) ==
    IF ~eltakomessage.ok THEN eltakomessage
    ELSE IF \/ eltakomessage.org # DiscoveryOrg
            \/ eltakomessage.is_request # FALSE
            \/ eltakomessage.address # 0
    THEN ParseError("This is not an EltakoDiscoveryReply")
    ELSE IF Slice(eltakomessage.payload, 2, 4) # DiscoveryMarker
    THEN ParseError("Assumed fixed part 7F 08 not present")
    ELSE [ok |-> TRUE,
          reported_address |-> eltakomessage.payload[1],
          reported_size |-> eltakomessage.payload[2],
          model |-> Slice(eltakomessage.payload, 4, 8)]

DiscoveryReplyParse(data) == DiscoveryReplyDecode(EltakoParse(data))

---------------------------------------------------------------------------
(* EltakoTimeout *)

TimeoutOrg == 248    \* 0xf8

TimeoutFrame == EltakoSerialize(TimeoutOrg, 0, Zeros8, FALSE)

\* EltakoTimeout.parse after super().parse(data) gave esp2message
TimeoutDecode(esp2message) ==
    IF ~esp2message.ok THEN esp2message
    ELSE IF \/ esp2message.org # TimeoutOrg
            \/ esp2message.is_request # FALSE
            \/ esp2message.payload # Zeros8
            \/ esp2message.address # 0
    THEN ParseError("Does not look like an EltakoTimeout")
    ELSE [ok |-> TRUE]

TimeoutParse(data) == TimeoutDecode(EltakoParse(data))

---------------------------------------------------------------------------
(* exchange *)

ResponseTypes ==
    {"ESP2Message", "EltakoMessage", "EltakoDiscoveryReply", "EltakoTimeout"}

\* responsetype.parse(data)
Parse(responsetype, data) ==
    CASE responsetype = "ESP2Message" -> ESP2Parse(data)
      [] responsetype = "EltakoMessage" -> EltakoParse(data)
      [] responsetype = "EltakoDiscoveryReply" -> DiscoveryReplyParse(data)
      [] responsetype = "EltakoTimeout" -> TimeoutParse(data)

\* Whether the fallback parse of the payload as an EltakoTimeout succeeds
IsTimeoutIndicator(data) == TimeoutParse(data).ok

\* The except branch of exchange(): parsed is the failed parse
ExchangeFailed(parsed, data) ==
    IF IsTimeoutIndicator(data) THEN [kind |-> "TimeoutError"]
    ELSE [kind |-> "ParseError", err |-> parsed.err]

\* Mutant of ExchangeParsed: the Timeout-Indicator is looked for first
ExchangeTimeoutFirst(parsed, data) ==
    IF IsTimeoutIndicator(data) THEN [kind |-> "TimeoutError"]
    ELSE IF parsed.ok THEN [kind |-> "return", msg |-> parsed]
    ELSE [kind |-> "ParseError", err |-> parsed.err]

\* The try block of exchange(): parsed is responsetype.parse(payload)
ExchangeParsed(parsed, data) ==
    IF parsed.ok THEN [kind |-> "return", msg |-> parsed]
    ELSE ExchangeFailed(parsed, data)

\* What exchange() does with the payload of the CoAP response: it returns
\* the parsed message, raises TimeoutError, or re-raises the ParseError.
Exchange(responsetype, data) ==
    ExchangeParsed(Parse(responsetype, data), data)

---------------------------------------------------------------------------
(* The occupancy map of enumerate() *)

Unknown == "None"      \* the entry None: index 0, never probed
Free == "False"        \* the entry False: probed, nothing answered
Occupied == "True"     \* the entry True: claimed by a device

\* Mutant of SearchLimit: the search range reaches one base further
SearchLimitOneMore == 254 + 1

SearchLimit == 254     \* range(1, 254 - response.reported_size)

MapLimit == 255        \* while len(usage_map) < 255

\* The state of address a in map m
At(m, a) == m[a + 1]

\* Python's any() over a slice of the map: only True is truthy
Any(s) == \E k \in 1..Len(s) : s[k] = Occupied

\* if not any(usage_map[i:i+size])
Fits(m, k, size) == ~Any(Slice(m, k, k + size))

\* for i in range(lo, hi): if not any(usage_map[i:i+size]): break
\* The candidates lo..hi-1 are tried in ascending order, the lower half of
\* the range before the upper half; the result is the first that fits.
RECURSIVE Search(_, _, _, _)
RECURSIVE SearchUpper(_, _, _, _, _)
Search(m, size, lo, hi) ==
    IF hi <= lo THEN [found |-> FALSE, i |-> lo]
    ELSE IF hi = lo + 1 THEN [found |-> Fits(m, lo, size), i |-> lo]
    ELSE SearchUpper(Search(m, size, lo, (lo + hi) \div 2),
                     m, size, (lo + hi) \div 2, hi)

\* The search goes on above the lower half only when nothing fitted there
SearchUpper(lower, m, size, mid, hi) ==
    IF lower.found THEN lower ELSE Search(m, size, mid, hi)

\* Mutant of FirstFit: the search starts at 2
FirstFitFromTwo(m, size, i0) ==
    IF SearchLimit - size <= 2 THEN [found |-> FALSE, i |-> i0]
    ELSE Search(m, size, 2, SearchLimit - size)

\* Mutant of FirstFit: the search starts at 0
FirstFitFromZero(m, size, i0) ==
    IF SearchLimit - size <= 0 THEN [found |-> FALSE, i |-> i0]
    ELSE Search(m, size, 0, SearchLimit - size)

\* The search of Phase B: range(1, 254 - size).  When the range is empty
\* the for statement leaves i as it was (i0), otherwise at the last value.
FirstFit(m, size, i0) ==
    IF SearchLimit - size <= 1 THEN [found |-> FALSE, i |-> i0]
    ELSE Search(m, size, 1, SearchLimit - size)

\* Mutant of Reserve: a single True replaces the whole slice
ReserveOneEntry(m, a, size) ==
    Slice(m, 0, a) \o <<Occupied>> \o Slice(m, a + size, Len(m))

\* Mutant of Reserve: the range is left as it was
ReserveNothing(m, a, size) == m

\* usage_map[i:i+size] = [True] * size
Reserve(m, a, size) ==
    Slice(m, 0, a) \o Repeat(Occupied, size) \o Slice(m, a + size, Len(m))

\* Mutant of MarkDevice: one entry too many is appended
MarkDeviceOneMore(m, size) == m \o Repeat(Occupied, size + 1)

\* for i in range(size): usage_map.append(True)
MarkDevice(m, size) == m \o Repeat(Occupied, size)

\* usage_map.append(False)
MarkFree(m) == Append(m, Free)

---------------------------------------------------------------------------
(* Requests, replies and printed lines *)

AssignOrg == 248       \* EltakoMessage(org=0xf8, address=i)

\* EltakoMessage(org=0xf0, address=a)
Probe(a) == [org |-> DiscoveryOrg, address |-> a]

\* EltakoMessage(org=0xf8, address=a)
AssignCommand(a) == [org |-> AssignOrg, address |-> a]

NoRequest == [org |-> 0, address |-> 0]

NoResponse == [reported_address |-> 0, reported_size |-> 0, model |-> <<>>]

\* The EltakoDiscoveryReply object built from a successful parse
Reply(msg) == [reported_address |-> msg.reported_address,
               reported_size |-> msg.reported_size,
               model |-> msg.model]

Line(msg, address, size) == [msg |-> msg, address |-> address, size |-> size]

ScanningLine == Line("Scanning the bus for devices with addresses...", 0, 0)
DiscoveredLine(a, size) == Line("Discovered at", a, size)
CompletedLine == Line("Bus scan completed.", 0, 0)
LrnNoticeLine == Line("You may now put a device into LRN mode", 0, 0)
AvailableLine(size) == Line("A device is available in LRN mode", 0, size)
DirtyLine == Line("Assigning may not have worked", 0, 0)
AssignedLine(a) == Line("The device was assigned bus address", a, 0)

---------------------------------------------------------------------------
(* The bus: what the gateway may answer *)

MaxDevices == 2        \* devices answering Phase A probes
MaxLearn == 2          \* devices put into learn mode during Phase B

DeviceAddrs == {1, 3, 5}          \* addresses where a device may answer
ScanSizes == {0, 1, 2, 251}       \* sizes a discovered device may report
LearnSizes == {0, 1, 2, 253}      \* sizes a learn-mode device may report
ModelId == <<0, 0, 1, 2>>

\* An address other than a
WrongAddress(a) == (a + 1) % 256

\* A frame whose checksum is wrong, and a well-formed response that is
\* neither a Discovery Reply nor a Timeout-Indicator
CorruptFrame == Preamble \o EltakoBody(DiscoveryOrg, 0, Zeros8, FALSE) \o <<1>>
ForeignFrame == EltakoSerialize(5, 0, Zeros8, FALSE)

ScanReplies(n, answered) ==
    {TimeoutFrame, CorruptFrame, ForeignFrame} \cup
    IF n \in DeviceAddrs /\ answered < MaxDevices
    THEN {DiscoveryReplyFrame(ra, s, ModelId) :
             ra \in {n, WrongAddress(n)}, s \in ScanSizes}
    ELSE {}

LearnReplies(answered) ==
    {TimeoutFrame, CorruptFrame, ForeignFrame} \cup
    IF answered < MaxLearn
    THEN {DiscoveryReplyFrame(0, s, ModelId) : s \in LearnSizes}
    ELSE {}

AssignReplies(a, size) ==
    {TimeoutFrame, CorruptFrame, ForeignFrame} \cup
    {DiscoveryReplyFrame(ra, size, ModelId) : ra \in {0, a, WrongAddress(a)}}

---------------------------------------------------------------------------
(* enumerate, Phase A *)

\* No message is being built or parsed
NoMessage == [cls |-> "none"]
NotParsed == [ok |-> FALSE, err |-> ""]
NoFlip == [pos |-> 0, bit |-> 0]

CodecIdle ==
    /\ cpc = "none"
    /\ cargs = NoMessage
    /\ cmsg = NoMessage
    /\ cwire = <<>>
    /\ cflip = NoFlip
    /\ cparsed = NotParsed

Init ==
    /\ pc = "start"
    /\ usage_map = <<Unknown>>
    /\ reported = FALSE
    /\ request = NoRequest
    /\ response = NoResponse
    /\ i = 0
    /\ outcome = "none"
    /\ error = ""
    /\ out = <<>>
    /\ discovered = {}
    /\ ndev = 0
    /\ nlearn = 0
    /\ xtype = "none"
    /\ xdata = <<>>
    /\ xresult = [kind |-> "none"]
    /\ CodecIdle

\* An exception leaves enumerate(): the run ends
Abort(exception) ==
    /\ pc' = "aborted"
    /\ error' = exception

\* The head of the Phase A loop with the map m: the next probe, or the end
\* of the scan and the first learn-mode probe
ScanLoop(m, lines) ==
    /\ usage_map' = m
    /\ IF Len(m) < MapLimit
       THEN /\ pc' = "scan_wait"
            /\ request' = Probe(Len(m))
            /\ out' = lines
            /\ UNCHANGED reported
       ELSE /\ pc' = "learn_wait"
            /\ request' = Probe(0)
            /\ out' = Append(lines, CompletedLine)
            /\ reported' = FALSE

\* Mutant of ScanAddressOk: the reported address is not compared
ScanAddressAny(m, reported_address) == TRUE

\* assert len(usage_map) == response.reported_address
ScanAddressOk(m, reported_address) == Len(m) = reported_address

\* The value i holds after: for i in range(size)
AfterRange(size, i0) == IF size > 0 THEN size - 1 ELSE i0

Start ==
    /\ pc = "start"
    /\ ScanLoop(usage_map, <<ScanningLine>>)
    /\ UNCHANGED <<response, i, outcome, error, discovered, ndev, nlearn>>
    /\ UNCHANGED exchangeVars
    /\ UNCHANGED codecVars

\* except TimeoutError: usage_map.append(False)
ScanTimeout ==
    /\ pc = "scan_wait"
    /\ \E data \in ScanReplies(request.address, ndev) :
          Exchange("EltakoDiscoveryReply", data).kind = "TimeoutError"
    /\ outcome' = "TimeoutError"
    /\ ScanLoop(MarkFree(usage_map), <<>>)
    /\ UNCHANGED <<response, i, error, discovered, ndev, nlearn>>
    /\ UNCHANGED exchangeVars
    /\ UNCHANGED codecVars

\* The ParseError that exchange() re-raises is caught nowhere
ScanParseError ==
    /\ pc = "scan_wait"
    /\ \E data \in ScanReplies(request.address, ndev) :
          Exchange("EltakoDiscoveryReply", data).kind = "ParseError"
    /\ outcome' = "ParseError"
    /\ Abort("ParseError")
    /\ out' = <<>>
    /\ UNCHANGED <<usage_map, reported, request, response, i, discovered,
                   ndev, nlearn>>
    /\ UNCHANGED exchangeVars
    /\ UNCHANGED codecVars

\* The else branch of the Phase A try, r being what exchange() returned
ScanDiscoveredWith(r) ==
    /\ r.kind = "return"
    /\ ScanAddressOk(usage_map, r.msg.reported_address)
    /\ response' = Reply(r.msg)
    /\ discovered' = discovered \cup
          {[address |-> Len(usage_map), size |-> r.msg.reported_size]}
    /\ i' = AfterRange(r.msg.reported_size, i)
    /\ ScanLoop(MarkDevice(usage_map, r.msg.reported_size),
                <<DiscoveredLine(Len(usage_map), r.msg.reported_size)>>)

ScanDiscovered ==
    /\ pc = "scan_wait"
    /\ \E data \in ScanReplies(request.address, ndev) :
          ScanDiscoveredWith(Exchange("EltakoDiscoveryReply", data))
    /\ outcome' = "return"
    /\ ndev' = ndev + 1
    /\ UNCHANGED <<error, nlearn>>
    /\ UNCHANGED exchangeVars
    /\ UNCHANGED codecVars

\* The assert of Phase A fails
ScanWrongAddressWith(r) ==
    /\ r.kind = "return"
    /\ ~ScanAddressOk(usage_map, r.msg.reported_address)
    /\ response' = Reply(r.msg)

ScanWrongAddress ==
    /\ pc = "scan_wait"
    /\ \E data \in ScanReplies(request.address, ndev) :
          ScanWrongAddressWith(Exchange("EltakoDiscoveryReply", data))
    /\ outcome' = "return"
    /\ ndev' = ndev + 1
    /\ Abort("AssertionError")
    /\ out' = <<>>
    /\ UNCHANGED <<usage_map, reported, request, i, discovered, nlearn>>
    /\ UNCHANGED exchangeVars
    /\ UNCHANGED codecVars

---------------------------------------------------------------------------
(* enumerate, Phase B *)

\* Mutant of AssignUnconfirmed: address 0 is not told apart
AssignUnconfirmedNever(reported_address) == FALSE

\* if response.reported_address == 0
AssignUnconfirmed(reported_address) == reported_address = 0

\* Mutant of AssignAddressOk: the reported address is not compared
AssignAddressAny(a, reported_address) == TRUE

\* assert response.reported_address == i
AssignAddressOk(a, reported_address) == reported_address = a

\* The head of the Phase B loop: the next learn-mode probe
LearnLoop ==
    /\ pc' = "learn_wait"
    /\ request' = Probe(0)

\* Mutant of NoticeDue: the flag is not consulted
NoticeAlways(flag) == TRUE

\* if reported is False
NoticeDue(flag) == flag = FALSE

\* except TimeoutError: the notice is printed unless reported is set
LearnTimeout ==
    /\ pc = "learn_wait"
    /\ \E data \in LearnReplies(nlearn) :
          Exchange("EltakoDiscoveryReply", data).kind = "TimeoutError"
    /\ outcome' = "TimeoutError"
    /\ out' = IF NoticeDue(reported) THEN <<LrnNoticeLine>> ELSE <<>>
    /\ reported' = TRUE
    /\ LearnLoop
    /\ UNCHANGED <<usage_map, response, i, error, discovered, ndev, nlearn>>
    /\ UNCHANGED exchangeVars
    /\ UNCHANGED codecVars

LearnParseError ==
    /\ pc = "learn_wait"
    /\ \E data \in LearnReplies(nlearn) :
          Exchange("EltakoDiscoveryReply", data).kind = "ParseError"
    /\ outcome' = "ParseError"
    /\ Abort("ParseError")
    /\ out' = <<>>
    /\ UNCHANGED <<usage_map, reported, request, response, i, discovered,
                   ndev, nlearn>>
    /\ UNCHANGED exchangeVars
    /\ UNCHANGED codecVars

\* The search broke out at fit.i: usage_map[i:i+size] = [True] * size
LearnReserve(fit, size) ==
    /\ fit.found
    /\ i' = fit.i
    /\ usage_map' = Reserve(usage_map, fit.i, size)

\* The search ran out: raise Exception("No suitable free space ...")
LearnExhausted(fit) ==
    /\ ~fit.found
    /\ i' = fit.i

LearnFoundWith(r) ==
    /\ r.kind = "return"
    /\ LearnReserve(FirstFit(usage_map, r.msg.reported_size, i),
                    r.msg.reported_size)
    /\ response' = Reply(r.msg)
    /\ out' = <<AvailableLine(r.msg.reported_size)>>

\* A learn-mode device answered and the search found room: the range is
\* reserved and the coroutine is about to send the assignment command
LearnFound ==
    /\ pc = "learn_wait"
    /\ \E data \in LearnReplies(nlearn) :
          LearnFoundWith(Exchange("EltakoDiscoveryReply", data))
    /\ outcome' = "return"
    /\ nlearn' = nlearn + 1
    /\ pc' = "assign_send"
    /\ UNCHANGED <<reported, request, error, discovered, ndev>>
    /\ UNCHANGED exchangeVars
    /\ UNCHANGED codecVars

LearnNoSpaceWith(r) ==
    /\ r.kind = "return"
    /\ LearnExhausted(FirstFit(usage_map, r.msg.reported_size, i))
    /\ response' = Reply(r.msg)
    /\ out' = <<AvailableLine(r.msg.reported_size)>>

\* A learn-mode device answered and the search found no room
LearnNoSpace ==
    /\ pc = "learn_wait"
    /\ \E data \in LearnReplies(nlearn) :
          LearnNoSpaceWith(Exchange("EltakoDiscoveryReply", data))
    /\ outcome' = "return"
    /\ nlearn' = nlearn + 1
    /\ Abort("No suitable free space in usage map")
    /\ UNCHANGED <<usage_map, reported, request, discovered, ndev>>
    /\ UNCHANGED exchangeVars
    /\ UNCHANGED codecVars

\* exchange(context, address, EltakoMessage(org=0xf8, address=i), ...)
AssignSend ==
    /\ pc = "assign_send"
    /\ request' = AssignCommand(i)
    /\ pc' = "assign_wait"
    /\ out' = <<>>
    /\ UNCHANGED <<usage_map, reported, response, i, outcome, error,
                   discovered, ndev, nlearn>>
    /\ UNCHANGED exchangeVars
    /\ UNCHANGED codecVars

\* The TimeoutError of the assignment exchange is raised outside the try
AssignTimeout ==
    /\ pc = "assign_wait"
    /\ \E data \in AssignReplies(i, response.reported_size) :
          Exchange("EltakoDiscoveryReply", data).kind = "TimeoutError"
    /\ outcome' = "TimeoutError"
    /\ Abort("TimeoutError")
    /\ out' = <<>>
    /\ UNCHANGED <<usage_map, reported, request, response, i, discovered,
                   ndev, nlearn>>
    /\ UNCHANGED exchangeVars
    /\ UNCHANGED codecVars

AssignParseError ==
    /\ pc = "assign_wait"
    /\ \E data \in AssignReplies(i, response.reported_size) :
          Exchange("EltakoDiscoveryReply", data).kind = "ParseError"
    /\ outcome' = "ParseError"
    /\ Abort("ParseError")
    /\ out' = <<>>
    /\ UNCHANGED <<usage_map, reported, request, response, i, discovered,
                   ndev, nlearn>>
    /\ UNCHANGED exchangeVars
    /\ UNCHANGED codecVars

AssignDirtyWith(r) ==
    /\ r.kind = "return"
    /\ AssignUnconfirmed(r.msg.reported_address)
    /\ response' = Reply(r.msg)

\* The reply reports address 0: the area stays marked, the loop continues
AssignDirty ==
    /\ pc = "assign_wait"
    /\ \E data \in AssignReplies(i, response.reported_size) :
          AssignDirtyWith(Exchange("EltakoDiscoveryReply", data))
    /\ outcome' = "return"
    /\ out' = <<DirtyLine>>
    /\ LearnLoop
    /\ UNCHANGED <<usage_map, reported, i, error, discovered, ndev, nlearn>>
    /\ UNCHANGED exchangeVars
    /\ UNCHANGED codecVars

AssignWrongAddressWith(r) ==
    /\ r.kind = "return"
    /\ ~AssignUnconfirmed(r.msg.reported_address)
    /\ ~AssignAddressOk(i, r.msg.reported_address)
    /\ response' = Reply(r.msg)

\* The reply reports an address that is neither 0 nor i: the assert fails
AssignWrongAddress ==
    /\ pc = "assign_wait"
    /\ \E data \in AssignReplies(i, response.reported_size) :
          AssignWrongAddressWith(Exchange("EltakoDiscoveryReply", data))
    /\ outcome' = "return"
    /\ Abort("AssertionError")
    /\ out' = <<>>
    /\ UNCHANGED <<usage_map, reported, request, i, discovered, ndev, nlearn>>
    /\ UNCHANGED exchangeVars
    /\ UNCHANGED codecVars

AssignDoneWith(r) ==
    /\ r.kind = "return"
    /\ ~AssignUnconfirmed(r.msg.reported_address)
    /\ AssignAddressOk(i, r.msg.reported_address)
    /\ response' = Reply(r.msg)

\* The reply reports address i: the assignment is announced
AssignDone ==
    /\ pc = "assign_wait"
    /\ \E data \in AssignReplies(i, response.reported_size) :
          AssignDoneWith(Exchange("EltakoDiscoveryReply", data))
    /\ outcome' = "return"
    /\ out' = <<AssignedLine(i)>>
    /\ LearnLoop
    /\ UNCHANGED <<usage_map, reported, i, error, discovered, ndev, nlearn>>
    /\ UNCHANGED exchangeVars
    /\ UNCHANGED codecVars

Next ==
    \/ Start
    \/ ScanTimeout
    \/ ScanParseError
    \/ ScanDiscovered
    \/ ScanWrongAddress
    \/ LearnTimeout
    \/ LearnParseError
    \/ LearnFound
    \/ LearnNoSpace
    \/ AssignSend
    \/ AssignTimeout
    \/ AssignParseError
    \/ AssignDirty
    \/ AssignWrongAddress
    \/ AssignDone

Spec == Init /\ [][Next]_vars

---------------------------------------------------------------------------
(* exchange() applied to single responses *)

\* Frames built field by field, well-formed and not
TestBodies ==
    {<<tag, org, ra, size, m1, m2>> \o ModelId \o <<address>> :
        tag \in {TCT, RMT, 0}, org \in {DiscoveryOrg, TimeoutOrg, 5},
        ra \in {0, 7}, size \in {0, 2},
        m1 \in {DiscoveryMarker[1], 0}, m2 \in {DiscoveryMarker[2], 0},
        address \in {0, 9}}
    \cup {EltakoBody(org, address, Zeros8, is_request) :
        org \in {DiscoveryOrg, TimeoutOrg}, address \in {0, 9},
        is_request \in BOOLEAN}

TestFrames ==
    {ESP2Serialize(body) : body \in TestBodies}
    \cup {Preamble \o body \o <<(Sum(body) + 1) % 256>> : body \in TestBodies}
    \cup {<<165, 91>> \o body \o <<Sum(body) % 256>> : body \in TestBodies}
    \cup {ESP2Serialize(body) \o <<0>> : body \in TestBodies}
    \cup {<<>>, <<165>>, Preamble}

ExchangeInit ==
    /\ xtype \in ResponseTypes
    /\ xdata \in TestFrames
    /\ xresult = [kind |-> "none"]
    /\ CodecIdle
    /\ pc = "start"
    /\ usage_map = <<Unknown>>
    /\ reported = FALSE
    /\ request = NoRequest
    /\ response = NoResponse
    /\ i = 0
    /\ outcome = "none"
    /\ error = ""
    /\ out = <<>>
    /\ discovered = {}
    /\ ndev = 0
    /\ nlearn = 0

\* One call of exchange() whose CoAP response carries xdata
ExchangeCall ==
    /\ xresult.kind = "none"
    /\ xresult' = Exchange(xtype, xdata)
    /\ UNCHANGED <<xtype, xdata>>
    /\ UNCHANGED enumVars
    /\ UNCHANGED codecVars

ExchangeNext == ExchangeCall

ExchangeSpec == ExchangeInit /\ [][ExchangeNext]_vars

---------------------------------------------------------------------------
(* The frame codec applied to single messages *)

\* Bodies of 11 bytes; their sums run from 0 to 11 * 255
CodecBodies ==
    {<<code, org>> \o Repeat(fill, 8) \o <<address>> :
        code \in {0, TCT, 255}, org \in {0, 255}, fill \in {0, 255},
        address \in {0, 1, 128}}

\* Payloads of 7, 8 and 9 bytes
CodecPayloads == {Repeat(0, 7), Zeros8, Repeat(0, 9)}

\* The constructor calls under test
CodecArgs ==
    {[cls |-> "ESP2Message", body |-> body] : body \in CodecBodies}
    \cup {[cls |-> "EltakoMessage", org |-> DiscoveryOrg, address |-> 1,
           payload |-> payload, is_request |-> is_request] :
           payload \in CodecPayloads, is_request \in BOOLEAN}

\* cls(...): the constructor of the class args names
Construct(args) ==
    IF args.cls = "EltakoMessage"
    THEN EltakoMessageInit(args.org, args.address, args.payload,
                           args.is_request)
    ELSE ESP2MessageInit(args.body)

\* data with bit `bit` of its byte number pos (from 1) inverted
FlipBit(data, pos, bit) ==
    [data EXCEPT ![pos] = IF (@ \div 2^bit) % 2 = 1 THEN @ - 2^bit
                                                    ELSE @ + 2^bit]

CodecInit ==
    /\ cpc = "new"
    /\ cargs \in CodecArgs
    /\ cmsg = NoMessage
    /\ cwire = <<>>
    /\ cflip = NoFlip
    /\ cparsed = NotParsed
    /\ xtype = "none"
    /\ xdata = <<>>
    /\ xresult = [kind |-> "none"]
    /\ pc = "start"
    /\ usage_map = <<Unknown>>
    /\ reported = FALSE
    /\ request = NoRequest
    /\ response = NoResponse
    /\ i = 0
    /\ outcome = "none"
    /\ error = ""
    /\ out = <<>>
    /\ discovered = {}
    /\ ndev = 0
    /\ nlearn = 0

\* The constructor runs; neither __init__ raises
CodecConstruct ==
    /\ cpc = "new"
    /\ cmsg' = Construct(cargs)
    /\ cpc' = "built"
    /\ UNCHANGED <<cargs, cwire, cflip, cparsed>>
    /\ UNCHANGED enumVars
    /\ UNCHANGED exchangeVars

\* cmsg.serialize()
CodecSerialize ==
    /\ cpc = "built"
    /\ cwire' = Serialize(cmsg)
    /\ cpc' = "serialized"
    /\ UNCHANGED <<cargs, cmsg, cflip, cparsed>>
    /\ UNCHANGED enumVars
    /\ UNCHANGED exchangeVars

\* One bit of the wire form is inverted
CodecFlip ==
    /\ cpc = "serialized"
    /\ \E pos \in 1..Len(cwire), bit \in 0..7 :
          /\ cwire' = FlipBit(cwire, pos, bit)
          /\ cflip' = [pos |-> pos, bit |-> bit]
    /\ cpc' = "flipped"
    /\ UNCHANGED <<cargs, cmsg, cparsed>>
    /\ UNCHANGED enumVars
    /\ UNCHANGED exchangeVars

\* ESP2Message.parse(cwire)
CodecParse ==
    /\ cpc \in {"serialized", "flipped"}
    /\ cparsed' = ESP2Parse(cwire)
    /\ cpc' = "parsed"
    /\ UNCHANGED <<cargs, cmsg, cwire, cflip>>
    /\ UNCHANGED enumVars
    /\ UNCHANGED exchangeVars

CodecNext ==
    \/ CodecConstruct
    \/ CodecSerialize
    \/ CodecFlip
    \/ CodecParse

CodecSpec == CodecInit /\ [][CodecNext]_vars

---------------------------------------------------------------------------
(* Properties of Phase B's search and reservation *)

\* The addresses a, a+1, ..., a+size-1
Range(a, size) == a..(a + size - 1)

\* The bases k of [1, 254 - size) whose range [k, k+size) holds no
\* Occupied address of the map m
FreeBases(m, size) ==
    {k \in 1..(254 - size - 1) : \A a \in Range(k, size) : At(m, a) # Occupied}

\* A step in which the search of Phase B ends with a base to offer
SearchStep == pc = "learn_wait" /\ pc' = "assign_send"

\* A step in which the assignment command is handed to exchange()
SendStep == pc = "assign_send" /\ pc' = "assign_wait"

\* A step in which the exchange awaited at pc returned a Discovery Reply
ReplyStep(at) == pc = at /\ outcome' = "return"

\* C1: the base i offered by the search is not Occupied at the time of the
\* search, and the offered range [i, i+reported_size) holds no Occupied
\* address, whatever size the learn-mode device reports (0 included).
C1_OfferedBaseNotOccupied ==
    [][SearchStep =>
          /\ At(usage_map, i') # Occupied
          /\ \A a \in Range(i', response'.reported_size) :
                At(usage_map, a) # Occupied]_vars

\* C2: the base found by the search is the lowest i of [1, 254 - size)
\* whose range [i, i+size) holds no Occupied address, and that i is the
\* address of the assignment command then sent.
C2_FirstFit ==
    [][/\ SearchStep =>
             /\ i' \in FreeBases(usage_map, response'.reported_size)
             /\ \A k \in FreeBases(usage_map, response'.reported_size) :
                   i' <= k
       /\ SendStep => request' = [org |-> 248, address |-> i]]_vars

\* C2 witness: addresses 1..3 Occupied, a device of size 1, address 4 sent
C2_Witness ==
    /\ pc = "assign_wait"
    /\ request = [org |-> 248, address |-> 4]
    /\ response.reported_size = 1
    /\ \A a \in 1..4 : At(usage_map, a) = Occupied
    /\ discovered = {[address |-> 1, size |-> 2], [address |-> 3, size |-> 1]}

\* C5: when the assignment command for i is sent, every address of
\* [i, i+reported_size) is already marked Occupied.
C5_ReservedBeforeSend ==
    [][SendStep =>
          /\ request'.org = 248
          /\ \A a \in Range(request'.address, response.reported_size) :
                At(usage_map, a) = Occupied]_vars

\* C5 witness: the command for a device of size 2 is in flight
C5_Witness ==
    /\ pc = "assign_wait"
    /\ request.org = 248
    /\ response.reported_size = 2
    /\ \A a \in Range(request.address, 2) : At(usage_map, a) = Occupied

\* C9: after a learn-mode reply the run ends with "No suitable free space"
\* exactly when no base of [1, 254 - size) has a range free of Occupied
\* addresses; the map is then unchanged and the last request is still the
\* learn-mode probe.  An aborted run takes no further step.
C9_CapacityExhaustion ==
    [][/\ ReplyStep("learn_wait") =>
             /\ (pc' = "aborted" /\
                 error' = "No suitable free space in usage map")
                   <=> FreeBases(usage_map, response'.reported_size) = {}
             /\ pc' = "aborted" =>
                   /\ error' = "No suitable free space in usage map"
                   /\ usage_map' = usage_map
                   /\ request' = request
                   /\ request.org = 240
       /\ pc # "aborted"]_vars

\* C9 witness: the search ran through a non-empty range and found nothing
C9_Witness ==
    /\ pc = "aborted"
    /\ error = "No suitable free space in usage map"
    /\ response.reported_size = 2
    /\ request = [org |-> 240, address |-> 0]
    /\ At(usage_map, 253) = Free
    /\ At(usage_map, 254) = Free

---------------------------------------------------------------------------
(* Properties of Phase A *)

\* Phase A has just ended: the state in which the first learn-mode probe
\* is in flight
ScanJustCompleted ==
    /\ pc = "learn_wait"
    /\ out # <<>>
    /\ out[Len(out)] = CompletedLine

\* Address a lies in the range claimed by a discovered device
Claimed(a) ==
    \E d \in discovered : d.address <= a /\ a < d.address + d.size

\* C3: when Phase A ends, every address of 1..254 is Occupied exactly when
\* it lies in the range [n, n+size) of a device that answered at n, and is
\* Free otherwise; none is Unknown.
C3_ScanResult ==
    ScanJustCompleted =>
        \A a \in 1..254 :
            /\ At(usage_map, a) = Occupied <=> Claimed(a)
            /\ At(usage_map, a) = Free <=> ~Claimed(a)

\* C3 witness: devices at 1 (size 2) and 5 (size 1), all else timing out
C3_Witness ==
    /\ ScanJustCompleted
    /\ discovered = {[address |-> 1, size |-> 2], [address |-> 5, size |-> 1]}
    /\ \A a \in 1..254 : At(usage_map, a) = Occupied <=> a \in {1, 2, 5}

\* C4: each probe of Phase A is addressed strictly higher than the one
\* before it.
C4_ProbesAscend ==
    [][(pc = "scan_wait" /\ pc' = "scan_wait") =>
          request'.address > request.address]_vars

\* C8: a Discovery Reply to the probe of n that reports another address
\* ends the run with an AssertionError, the map and the last request as
\* they were; an aborted run takes no further step.
C8_WrongAddressFatal ==
    [][/\ (ReplyStep("scan_wait") /\
           response'.reported_address # request.address) =>
             /\ pc' = "aborted"
             /\ error' = "AssertionError"
             /\ usage_map' = usage_map
             /\ request' = request
             /\ discovered' = discovered
       /\ pc # "aborted"]_vars

\* C8 witness: the scan aborted on a reply that reports another address
C8_Witness ==
    /\ pc = "aborted"
    /\ error = "AssertionError"
    /\ request.org = 240
    /\ request.address >= 1
    /\ response.reported_address # request.address
    /\ Len(usage_map) = request.address

---------------------------------------------------------------------------
(* Properties of the assignment confirmation *)

\* Some line printed by the step announces an assigned address
Announced(lines) ==
    \E k \in 1..Len(lines) :
        lines[k].msg = "The device was assigned bus address"

\* C6: when the reply to the assignment command reports address 0, the
\* reserved range stays Occupied, no assignment is announced, and the next
\* request is the learn-mode probe (org 0xf0, address 0).
C6_DirtyRetry ==
    [][(ReplyStep("assign_wait") /\ response'.reported_address = 0) =>
          /\ usage_map' = usage_map
          /\ \A a \in Range(i, response.reported_size) :
                At(usage_map', a) = Occupied
          /\ ~Announced(out')
          /\ pc' = "learn_wait"
          /\ request' = [org |-> 240, address |-> 0]]_vars

\* C6 witness: the loop went on after a reply reporting address 0
C6_Witness ==
    /\ pc = "learn_wait"
    /\ out = <<DirtyLine>>
    /\ response.reported_address = 0
    /\ response.reported_size = 1
    /\ request = [org |-> 240, address |-> 0]
    /\ At(usage_map, i) = Occupied

\* C7: an assignment is announced only for i and only by the step that
\* received a reply to the assignment command for i reporting address i; a
\* reply reporting neither 0 nor i ends the run with an AssertionError,
\* nothing announced and no further request; an aborted run takes no step.
C7_ConfirmedOnly ==
    [][/\ Announced(out') =>
             /\ ReplyStep("assign_wait")
             /\ request = [org |-> 248, address |-> i]
             /\ response'.reported_address = i
             /\ out' = <<AssignedLine(i)>>
       /\ (ReplyStep("assign_wait") /\
           response'.reported_address \notin {0, i}) =>
             /\ pc' = "aborted"
             /\ error' = "AssertionError"
             /\ ~Announced(out')
             /\ request' = request
       /\ pc # "aborted"]_vars

\* C7 witness: the run aborted on a reply reporting neither 0 nor i
C7_Witness ==
    /\ pc = "aborted"
    /\ error = "AssertionError"
    /\ request = [org |-> 248, address |-> i]
    /\ response.reported_address \notin {0, i}

---------------------------------------------------------------------------
(* Properties of exchange() *)

\* C10: exchange() returns the parsed message when the response parses as
\* the expected type; raises TimeoutError when it does not but parses as a
\* Timeout-Indicator; re-raises the ParseError of the expected type when it
\* parses as neither.  A response that parses as a Discovery Reply never
\* yields TimeoutError.
C10_ExchangeClassifies ==
    xresult.kind # "none" =>
        /\ Parse(xtype, xdata).ok =>
              /\ xresult.kind = "return"
              /\ xresult.msg = Parse(xtype, xdata)
        /\ (~Parse(xtype, xdata).ok /\ TimeoutParse(xdata).ok) =>
              xresult.kind = "TimeoutError"
        /\ (~Parse(xtype, xdata).ok /\ ~TimeoutParse(xdata).ok) =>
              /\ xresult.kind = "ParseError"
              /\ xresult.err = Parse(xtype, xdata).err
        /\ DiscoveryReplyParse(xdata).ok => xresult.kind # "TimeoutError"

\* C10 witness: a Timeout-Indicator answered a call expecting a Discovery
\* Reply
C10_Witness ==
    /\ xtype = "EltakoDiscoveryReply"
    /\ xdata = TimeoutFrame
    /\ xresult.kind = "TimeoutError"

---------------------------------------------------------------------------
(* Properties of a whole run of enumerate() *)

\* C11: no TimeoutError raised by an exchange of enumerate() ends the run.
C11_TimeoutNeverAborts ==
    pc = "aborted" => error # "TimeoutError"

\* Every entry of m is kept in n or gains certainty: the length does not
\* decrease, no Free or Occupied entry becomes Unknown, no Occupied entry
\* becomes anything else
NoCertaintyLost(m, n) ==
    /\ Len(n) >= Len(m)
    /\ \A k \in 1..Len(m) :
          /\ m[k] # Unknown => n[k] # Unknown
          /\ m[k] = Occupied => n[k] = Occupied

\* C12: in every step the map keeps its length or grows, an entry that is
\* Free or Occupied does not become Unknown, and an Occupied entry stays
\* Occupied.  (A step that leaves the map as it is, or only appends to it,
\* loses nothing; the other steps are compared entry by entry.)
C12_MapMonotone ==
    [][\/ usage_map' = usage_map
       \/ /\ Len(usage_map') > Len(usage_map)
          /\ SubSeq(usage_map', 1, Len(usage_map)) = usage_map
       \/ NoCertaintyLost(usage_map, usage_map')]_vars

\* C12 witness: a reservation has turned Free entries into Occupied ones
\* in a map that a device's range had extended past 255 entries
C12_Witness ==
    /\ pc = "assign_send"
    /\ response.reported_size = 2
    /\ Len(usage_map) > 255
    /\ At(usage_map, i) = Occupied
    /\ At(usage_map, i + 1) = Occupied
    /\ At(usage_map, i + 2) = Free

\* The states of Phase B
PhaseB == {"learn_wait", "assign_send", "assign_wait"}

\* A step in which, right after a reply that reported address 0, the next
\* learn-mode probe finds a device of the same size and room for it
RetryStep ==
    /\ out = <<DirtyLine>>
    /\ SearchStep
    /\ response'.reported_size = response.reported_size

Noticed(lines) == \E k \in 1..Len(lines) : lines[k] = LrnNoticeLine

\* C14: the notice is printed only by a learn-mode timeout that finds the
\* flag unset, and that step sets the flag; the flag, once set, stays set;
\* a learn-mode timeout that finds the flag unset does print the notice,
\* and after every learn-mode timeout the next learn-mode probe is sent.
C14_NoticeOnce ==
    [][/\ Noticed(out') =>
             /\ pc = "learn_wait"
             /\ outcome' = "TimeoutError"
             /\ reported = FALSE
             /\ reported' = TRUE
       /\ reported = TRUE => reported' = TRUE
       /\ (pc = "learn_wait" /\ outcome' = "TimeoutError") =>
             /\ pc' = "learn_wait"
             /\ request' = [org |-> 240, address |-> 0]
             /\ reported' = TRUE
             /\ reported = FALSE => Noticed(out')]_vars

\* C14 witness: after two learn-mode replies a further timeout prints
\* nothing
C14_Witness ==
    /\ pc = "learn_wait"
    /\ reported = TRUE
    /\ outcome = "TimeoutError"
    /\ out = <<>>
    /\ nlearn = 2

\* C15: index 0 of the map is never Free or Occupied, and no assignment
\* command carries address 0.
C15_AddressZeroReserved ==
    /\ usage_map[1] = Unknown
    /\ request.org = 248 => request.address # 0
    /\ pc \in {"assign_send", "assign_wait"} => i # 0

\* C15 witness: an assignment command for address 1 is in flight
C15_Witness ==
    /\ pc = "assign_wait"
    /\ request = [org |-> 248, address |-> 1]
    /\ response.reported_size = 1
    /\ At(usage_map, 0) = Unknown
    /\ At(usage_map, 1) = Occupied

\* C19: from the end of Phase A on the map has exactly 255 entries.
C19_MapHas255Entries ==
    pc \in PhaseB => Len(usage_map) = 255

\* C20: the range offered by an assignment command satisfies 1 <= i and
\* i + size <= 253, and Phase B leaves the entries of 253 and 254 as they
\* are.
C20_OfferedRangeBelow253 ==
    [][/\ SendStep =>
             /\ request'.address >= 1
             /\ request'.address + response.reported_size <= 253
       /\ pc \in PhaseB =>
             /\ At(usage_map', 253) = At(usage_map, 253)
             /\ At(usage_map', 254) = At(usage_map, 254)]_vars

\* C20 witness: the search gave up on a device of size 2 although 252,
\* 253 and 254 are Free
C20_Witness ==
    /\ pc = "aborted"
    /\ error = "No suitable free space in usage map"
    /\ response.reported_size = 2
    /\ discovered = {[address |-> 1, size |-> 251]}
    /\ \A a \in 252..254 : At(usage_map, a) = Free

---------------------------------------------------------------------------
(* Properties of the frame codec *)

\* The message has been serialized and its body has 11 bytes
Framed == cpc \in {"serialized", "flipped", "parsed"} /\ Len(Body(cmsg)) = 11

\* C16: the serialized form of an 11-byte body has 14 bytes, the preamble
\* A5 5A, the body and sum(body) mod 256, and parse gives the body back.
C16_RoundTrip ==
    (Framed /\ cflip = NoFlip) =>
        /\ Len(cwire) = 14
        /\ SubSeq(cwire, 1, 2) = <<165, 90>>
        /\ SubSeq(cwire, 3, 13) = Body(cmsg)
        /\ cwire[14] = Sum(Body(cmsg)) % 256
        /\ cpc = "parsed" => (cparsed.ok /\ cparsed.body = Body(cmsg))

\* C16 witness: a body whose sum exceeds 255 came back from parse
C16_Witness ==
    /\ cpc = "parsed"
    /\ cflip = NoFlip
    /\ cmsg = ESP2MessageInit(<<255, 255>> \o Repeat(255, 8) \o <<128>>)
    /\ cwire[14] = 118
    /\ cparsed.ok
    /\ cparsed.body = cmsg.body

\* C17: after any single bit of a valid frame is inverted parse raises
\* ParseError: no preamble for the first two bytes, a checksum mismatch
\* for the other twelve.
C17_BitFlipDetected ==
    (Framed /\ cpc = "parsed" /\ cflip # NoFlip) =>
        /\ ~cparsed.ok
        /\ cparsed.err = IF cflip.pos <= 2 THEN "No preamble found"
                                           ELSE "Checksum mismatch"

\* C17 witness: the top bit of a body byte was inverted and parse refused
\* the frame
C17_Witness ==
    /\ cpc = "parsed"
    /\ cflip = [pos |-> 3, bit |-> 7]
    /\ Len(Body(cmsg)) = 11
    /\ cparsed = ParseError("Checksum mismatch")

\* C18: an EltakoMessage is only ever constructed with 8 payload bytes and
\* its serialized form has 14 bytes.
C18_PayloadLengthChecked ==
    (cmsg.cls = "EltakoMessage") =>
        /\ Len(cmsg.payload) = 8
        /\ cpc = "serialized" => Len(cwire) = 14

===========================================================================
